---- MODULE Spec2Model ----
(***************************************************************************)
(* Model of src/nonlinear.py: the Piecewise class (constructor, val,       *)
(* __mul__, __add__, verify) over a MySolver backend.  The backend         *)
(* (my_solver.MySolver, a wrapper of an incremental SMT solver) is not in   *)
(* src/; it is modelled from the capability contract of spec.md section 6. *)
(***************************************************************************)
EXTENDS Integers, Sequences, FiniteSets, Bags, TLC

VARIABLES
    Piecewise_id,   \* the class attribute Piecewise.id (process-wide counter)
    insts,          \* the instances constructed so far, in construction order
    solver,         \* backend models: solver id -> stack of scopes (bags of constraints)
    syms,           \* per instance, the symbols made by z3.Real, in call order
    last,           \* the call that was made last, and what it returned or raised
    running         \* the calls of __init__ in progress, one per thread

vars == <<Piecewise_id, insts, solver, syms, last, running>>

-----------------------------------------------------------------------------
(* Bounds of the model *)

MaxInst == 2        \* constructions
MaxSyms == 3        \* z3.Real symbols created, over all instances
MaxDepth == 1       \* scopes a caller pushes on one backend

-----------------------------------------------------------------------------
(* Values *)

\* Python's None (val_def before the first val(); the default `s` of verify)
None == "None"

\* z3 BoolRef conditions over one model variable `var`:
\*   var < hi,  var >= lo,  And(var >= lo, var < hi)
Lt(b) == [kind |-> "lt", lo |-> 0, hi |-> b]
Ge(b) == [kind |-> "ge", lo |-> b, hi |-> 0]
Range(a, b) == [kind |-> "range", lo |-> a, hi |-> b]

\* the values of `var` that tell the conditions above apart
Dom == 0 .. 2

Holds(c, x) ==
    CASE c.kind = "lt" -> x < c.hi
      [] c.kind = "ge" -> x >= c.lo
      [] c.kind = "range" -> x >= c.lo /\ x < c.hi

\* right-hand operands of * and +: a Python int/float literal k, or the
\* z3 ArithRef `e`
Lit(k) == [lit |-> TRUE, k |-> k]
SymE == [lit |-> FALSE, k |-> 0]
Operands == {Lit(2), SymE}

\* faulty variant: only `isinstance(other, float)` is tested, and the
\* literals here are ints
IsLiteralFloat(other) == FALSE

\* isinstance(other, float) or isinstance(other, int)
IsLiteral(other) == other.lit

\* the values the free symbol `e` is tried at by check()
EDom == {0, 1}

\* Condition-Value Lists the caller passes to the constructor: of 0, 1, 2 and
\* 3 pairs; exactly one condition holds everywhere (ListExact), nowhere for
\* var >= 1 (ListGap), two hold for 1 <= var < 2 (ListOverlap)
ListEmpty == << >>
ListGap == << <<Lt(1), 1>> >>
ListOverlap == << <<Lt(2), 1>>, <<Ge(1), 2>> >>
ListExact == << <<Lt(1), 1>>, <<Range(1, 2), 2>>, <<Ge(2), 0>> >>
Lists == {ListEmpty, ListGap, ListOverlap, ListExact}

\* the (name, vals) arguments of the constructions the caller makes
Inputs == { <<"a", ListExact>>, <<"a", ListGap>>, <<"a_0", ListEmpty>> }

VerifyInputs == { <<"a", vals>> : vals \in Lists }

\* backend models the caller owns
Solvers == {"s1"}

\* constraints the caller itself adds to a backend
UserCons == {Lt(1)}

-----------------------------------------------------------------------------
(* Generated symbol names: the f-strings of val, __mul__ and __add__ *)

Digit(d) ==
    CASE d = 0 -> "0" [] d = 1 -> "1" [] d = 2 -> "2" [] d = 3 -> "3"
      [] d = 4 -> "4" [] d = 5 -> "5" [] d = 6 -> "6" [] d = 7 -> "7"
      [] d = 8 -> "8" [] d = 9 -> "9"

RECURSIVE Str(_)
Str(n) == IF n < 10 THEN Digit(n) ELSE Str(n \div 10) \o Digit(n % 10)

ValName(id) == "auxPiecewiseVal_" \o Str(id)

\* faulty variant: the id is left out of the name
MulNameNoId(name, id, aux_id) ==
    "auxPiecewiseMul_" \o name \o "," \o Str(aux_id)

MulName(name, id, aux_id) ==
    "auxPiecewiseMul_" \o name \o "_" \o Str(id) \o "," \o Str(aux_id)

AddName(id, aux_id) == "auxPiecewiseAdd_" \o Str(id) \o "," \o Str(aux_id)

-----------------------------------------------------------------------------
(* Backend model (MySolver): add, push, pop, check *)

\* Implies(c, sym == v), Implies(c, sym == v * other), Implies(c, sym == v + other)
Implication(c, sym, v, op, other) ==
    [kind |-> "implies", c |-> c, sym |-> sym, v |-> v, op |-> op,
     other |-> other, conds |-> << >>]

\* a constraint on `var` alone
UserCon(c) ==
    [kind |-> "user", c |-> c, sym |-> "", v |-> 0, op |-> "", other |-> Lit(0),
     conds |-> << >>]

\* sum([If(c, 1, 0) for c in conds]) != 1
CountNotOne(conds) ==
    [kind |-> "ne1", c |-> Lt(0), sym |-> "", v |-> 0, op |-> "", other |-> Lit(0),
     conds |-> conds]

NewSolver == << EmptyBag >>

SolverAdd(frames, con) ==
    [frames EXCEPT ![Len(frames)] = @ (+) SetToBag({con})]

RECURSIVE SolverAddAll(_, _)
SolverAddAll(frames, cons) ==
    IF cons = << >> THEN frames
    ELSE SolverAddAll(SolverAdd(frames, Head(cons)), Tail(cons))

SolverPush(frames) == Append(frames, EmptyBag)

SolverPop(frames) == SubSeq(frames, 1, Len(frames) - 1)

\* the constraints of all scopes
Asserted(frames) == UNION {BagToSet(frames[d]) : d \in 1 .. Len(frames)}

\* number of constraints in the backend, with multiplicity
RECURSIVE NumConstraints(_)
NumConstraints(frames) ==
    IF frames = << >> THEN 0
    ELSE BagCardinality(Head(frames)) + NumConstraints(Tail(frames))

\* how often `con` is in the backend
RECURSIVE CountOf(_, _)
CountOf(frames, con) ==
    IF frames = << >> THEN 0
    ELSE CopiesIn(con, Head(frames)) + CountOf(Tail(frames), con)

NumTrue(conds, x) == Cardinality({j \in 1 .. Len(conds) : Holds(conds[j], x)})

\* the value an implication forces on its symbol at e
Rhs(con, e) ==
    CASE con.op = "eq" -> con.v
      [] con.op = "mul" -> con.v * (IF con.other.lit THEN con.other.k ELSE e)
      [] con.op = "add" -> con.v + (IF con.other.lit THEN con.other.k ELSE e)

\* the assignment var = x, e = e extends to the generated symbols so that
\* every constraint of `cons` holds
Models(cons, x, e) ==
    /\ \A con \in cons : con.kind = "user" => Holds(con.c, x)
    /\ \A con \in cons : con.kind = "ne1" => NumTrue(con.conds, x) # 1
    /\ \A c1, c2 \in cons :
          ( /\ c1.kind = "implies" /\ c2.kind = "implies"
            /\ c1.sym = c2.sym
            /\ Holds(c1.c, x) /\ Holds(c2.c, x) )
          => Rhs(c1, e) = Rhs(c2, e)

Satisfiable(frames) == \E x \in Dom, e \in EDom : Models(Asserted(frames), x, e)

\* the results check() may give
CheckResults(frames) ==
    IF Satisfiable(frames) THEN {"sat", "unknown"} ELSE {"unsat", "unknown"}

-----------------------------------------------------------------------------
(* Piecewise *)

\* what `last` holds: the call, its arguments, and what it returned or raised
NoCall ==
    [op |-> "none", inst |-> 0, other |-> Lit(0), ctx |-> None, name |-> "",
     vals |-> << >>, cached |-> FALSE, ret |-> None, satisfiable |-> None,
     raised |-> FALSE, error |-> "", breaks |-> << >>, range_vals |-> << >>,
     msg |-> [satisfiable |-> None, vals |-> << >>]]

\* the threads of a concurrent host
Threads == {"t1", "t2"}

\* no call of __init__ in progress
Idle == [pc |-> "idle", s |-> "", name |-> "", vals |-> << >>, id |-> 0, tmp |-> 0]

Init ==
    /\ Piecewise_id = 0
    /\ insts = << >>
    /\ solver = [s \in Solvers |-> NewSolver]
    /\ syms = << >>
    /\ last = NoCall
    /\ running = [frames |-> [t \in Threads |-> Idle], interleaved |-> FALSE]

\* faulty variant: the counter is not advanced
NextIdStuck(counter) == counter

\* Piecewise.id += 1
NextId(counter) == counter + 1

\* the fields __init__ sets
NewPiecewise(s, name, vals, counter) ==
    [s |-> s, vals |-> vals, id |-> counter, name |-> name,
     aux_id |-> 0, val_def |-> None]

\* Piecewise.__init__(self, s, name, vals)
Construct(s, name, vals) ==
    /\ Len(insts) < MaxInst
    /\ insts' = Append(insts, NewPiecewise(s, name, vals, Piecewise_id))
    /\ Piecewise_id' = NextId(Piecewise_id)
    /\ syms' = Append(syms, << >>)
    /\ last' = [NoCall EXCEPT !.op = "init", !.inst = Len(insts) + 1, !.ctx = s,
                              !.name = name, !.vals = vals]
    /\ UNCHANGED <<solver, running>>

\* faulty variant: the loop stops one pair early
PairConstraintsShort(vals, sym, op, other) ==
    [j \in 1 .. Len(vals) - 1 |-> Implication(vals[j][1], sym, vals[j][2], op, other)]

\* the constraints one pass of `for (c, v) in self.vals: self.s.add(...)` adds
PairConstraints(vals, sym, op, other) ==
    [j \in 1 .. Len(vals) |-> Implication(vals[j][1], sym, vals[j][2], op, other)]

\* a symbol made by z3.Real(name)
Real(kind, name) == [kind |-> kind, name |-> name]

\* number of symbols made so far
RECURSIVE TotalLen(_)
TotalLen(ss) == IF ss = << >> THEN 0 ELSE Len(Head(ss)) + TotalLen(Tail(ss))

\* the model stops making symbols at MaxSyms
Budget == TotalLen(syms) < MaxSyms

\* `self.val_def is not None`
ValCached(p) == p.val_def # None

\* faulty variant: the handle is not stored
ValInstNoCache(p) == p

\* the body of val(): the instance, the backend and the symbols it leaves
ValInst(p) == IF ValCached(p) THEN p ELSE [p EXCEPT !.val_def = ValName(p.id)]

\* faulty variant: the implications are registered on every call
ValSolverAlways(p, frames) ==
    SolverAddAll(frames, PairConstraints(p.vals, ValName(p.id), "eq", Lit(0)))

ValSolver(p, frames) ==
    IF ValCached(p) THEN frames
    ELSE SolverAddAll(frames, PairConstraints(p.vals, ValName(p.id), "eq", Lit(0)))

ValSyms(p, made) ==
    IF ValCached(p) THEN made ELSE Append(made, Real("val", ValName(p.id)))

\* Piecewise.val(self)
Val(i) ==
    /\ i \in 1 .. Len(insts)
    /\ ValCached(insts[i]) \/ Budget
    /\ insts' = [insts EXCEPT ![i] = ValInst(insts[i])]
    /\ solver' = [solver EXCEPT ![insts[i].s] = ValSolver(insts[i], @)]
    /\ syms' = [syms EXCEPT ![i] = ValSyms(insts[i], @)]
    /\ last' = [NoCall EXCEPT !.op = "val", !.inst = i,
                              !.cached = ValCached(insts[i]),
                              !.ret = ValInst(insts[i]).val_def]
    /\ UNCHANGED <<Piecewise_id, running>>

\* the symbolic branch of __mul__
MulAux(p) == MulName(p.name, p.id, p.aux_id)

\* faulty variant: aux_id is not advanced
MulInstNoInc(p) == p

MulInst(p) == [p EXCEPT !.aux_id = @ + 1]

MulSolver(p, other, frames) ==
    SolverAddAll(frames, PairConstraints(p.vals, MulAux(p), "mul", other))

\* Piecewise.__mul__(self, other); for a literal the result is ret * other.k
Mul(i, other) ==
    /\ i \in 1 .. Len(insts)
    /\ IF IsLiteral(other)
       THEN /\ ValCached(insts[i]) \/ Budget
            /\ insts' = [insts EXCEPT ![i] = ValInst(insts[i])]
            /\ solver' = [solver EXCEPT ![insts[i].s] = ValSolver(insts[i], @)]
            /\ syms' = [syms EXCEPT ![i] = ValSyms(insts[i], @)]
            /\ last' = [NoCall EXCEPT !.op = "mul", !.inst = i, !.other = other,
                                      !.cached = ValCached(insts[i]),
                                      !.ret = ValInst(insts[i]).val_def]
       ELSE /\ Budget
            /\ insts' = [insts EXCEPT ![i] = MulInst(insts[i])]
            /\ solver' = [solver EXCEPT ![insts[i].s] = MulSolver(insts[i], other, @)]
            /\ syms' = [syms EXCEPT ![i] = Append(@, Real("mul", MulAux(insts[i])))]
            /\ last' = [NoCall EXCEPT !.op = "mul", !.inst = i, !.other = other,
                                      !.cached = ValCached(insts[i]),
                                      !.ret = MulAux(insts[i])]
    /\ UNCHANGED <<Piecewise_id, running>>

AddAux(p) == AddName(p.id, p.aux_id)

\* faulty variant: __add__ materializes the value as __mul__ does for a literal
AddInstVal(p) == [p EXCEPT !.aux_id = @ + 1, !.val_def = ValName(p.id)]

\* faulty variant: __add__ keeps a counter of its own and leaves aux_id alone
AddInstNoInc(p) == p

AddInst(p) == [p EXCEPT !.aux_id = @ + 1]

AddSolver(p, other, frames) ==
    SolverAddAll(frames, PairConstraints(p.vals, AddAux(p), "add", other))

\* Piecewise.__add__(self, other)
Add(i, other) ==
    /\ i \in 1 .. Len(insts)
    /\ Budget
    /\ insts' = [insts EXCEPT ![i] = AddInst(insts[i])]
    /\ solver' = [solver EXCEPT ![insts[i].s] = AddSolver(insts[i], other, @)]
    /\ syms' = [syms EXCEPT ![i] = Append(@, Real("add", AddAux(insts[i])))]
    /\ last' = [NoCall EXCEPT !.op = "add", !.inst = i, !.other = other,
                              !.cached = ValCached(insts[i]),
                              !.ret = AddAux(insts[i])]
    /\ UNCHANGED <<Piecewise_id, running>>

\* the conditions of the list: [c for (c, _) in self.vals]
Conds(vals) == [j \in 1 .. Len(vals) |-> vals[j][1]]

\* the proof context of verify: `s`, or MySolver() when s is None
\* faulty variant: without an argument verify uses the shared backend
ProofContextShared(ctx) ==
    IF ctx = None THEN solver[CHOOSE s \in Solvers : TRUE] ELSE solver[ctx]

ProofContext(ctx) == IF ctx = None THEN NewSolver ELSE solver[ctx]

\* s.push(); s.add(num_sat != 1)
VerifyQuery(p, frames) == SolverAdd(SolverPush(frames), CountNotOne(Conds(p.vals)))

\* faulty variant: the scope of the query is not popped
VerifyNoPop(p, frames) == VerifyQuery(p, frames)

\* satisfiable = s.check(); s.pop(): the context verify leaves
VerifyPop(p, frames) == SolverPop(VerifyQuery(p, frames))

\* faulty variant: the message leaves the list out
VerifyMessageNoVals(p, satisfiable) == [satisfiable |-> satisfiable, vals |-> << >>]

\* f"... Got {satisfiable} for {str(self.vals)}"
VerifyMessage(p, satisfiable) == [satisfiable |-> satisfiable, vals |-> p.vals]

\* the condition of the assert that ends verify
VerifyAssert(satisfiable) == satisfiable # "unsat"

\* Piecewise.verify(self, s); when it raises, the message holds
\* `satisfiable` and str(self.vals)
Verify(i, ctx, satisfiable) ==
    /\ i \in 1 .. Len(insts)
    /\ satisfiable \in CheckResults(VerifyQuery(insts[i], ProofContext(ctx)))
    /\ solver' = IF ctx = None THEN solver
                 ELSE [solver EXCEPT
                         ![ctx] = VerifyPop(insts[i], ProofContext(ctx))]
    /\ last' = [NoCall EXCEPT !.op = "verify", !.inst = i, !.ctx = ctx,
                              !.satisfiable = satisfiable,
                              !.raised = ~VerifyAssert(satisfiable),
                              !.vals = IF VerifyAssert(satisfiable) THEN << >>
                                       ELSE insts[i].vals,
                              !.msg = IF VerifyAssert(satisfiable) THEN NoCall.msg
                                      ELSE VerifyMessage(insts[i], satisfiable)]
    /\ UNCHANGED <<Piecewise_id, insts, syms, running>>

-----------------------------------------------------------------------------
(* Piecewise.__init__ statement by statement, one call per thread *)

\* the threads that are inside __init__
Active == {t \in Threads : running.frames[t].pc # "idle"}

\* faulty variant: every instance takes the id 0
InitIdZero(counter) == 0

\* self.id = Piecewise.id
InitId(counter) == counter

\* the call starts: self.s = s; self.vals = vals
InitBegin(t, s, name, vals) ==
    /\ running.frames[t].pc = "idle"
    /\ Len(insts) + Cardinality(Active) < MaxInst
    /\ running' = [frames |-> [running.frames EXCEPT
                                 ![t] = [Idle EXCEPT !.pc = "id", !.s = s,
                                                     !.name = name, !.vals = vals]],
                   interleaved |-> running.interleaved \/ Active # {}]
    /\ last' = [NoCall EXCEPT !.op = "init_begin", !.ctx = s, !.name = name,
                              !.vals = vals]
    /\ UNCHANGED <<Piecewise_id, insts, solver, syms>>

\* self.id = Piecewise.id; self.name = name
InitReadId(t) ==
    /\ running.frames[t].pc = "id"
    /\ running' = [running EXCEPT !.frames[t].id = InitId(Piecewise_id),
                                  !.frames[t].pc = "load"]
    /\ last' = [NoCall EXCEPT !.op = "init_id"]
    /\ UNCHANGED <<Piecewise_id, insts, solver, syms>>

\* Piecewise.id += 1: the attribute is read ...
InitLoad(t) ==
    /\ running.frames[t].pc = "load"
    /\ running' = [running EXCEPT !.frames[t].tmp = Piecewise_id,
                                  !.frames[t].pc = "store"]
    /\ last' = [NoCall EXCEPT !.op = "init_load"]
    /\ UNCHANGED <<Piecewise_id, insts, solver, syms>>

\* ... and the sum is stored
InitStore(t) ==
    /\ running.frames[t].pc = "store"
    /\ Piecewise_id' = NextId(running.frames[t].tmp)
    /\ running' = [running EXCEPT !.frames[t].pc = "rest"]
    /\ last' = [NoCall EXCEPT !.op = "init_store"]
    /\ UNCHANGED <<insts, solver, syms>>

\* self.aux_id = 0; self.val_def = None; the call returns
InitEnd(t) ==
    LET f == running.frames[t] IN
    /\ f.pc = "rest"
    /\ insts' = Append(insts, NewPiecewise(f.s, f.name, f.vals, f.id))
    /\ syms' = Append(syms, << >>)
    /\ running' = [running EXCEPT !.frames[t] = Idle]
    /\ last' = [NoCall EXCEPT !.op = "init", !.inst = Len(insts) + 1, !.ctx = f.s,
                              !.name = f.name, !.vals = f.vals]
    /\ UNCHANGED <<Piecewise_id, solver>>

-----------------------------------------------------------------------------
(* Piecewise.from_var *)

\* an entry of range_vals: None is << >>, the value v is <<v>>
Some(v) == <<v>>

\* the arguments the caller passes to from_var: breaks and range_vals
FromVarInputs ==
    { << <<1, 2, 3>>, <<Some(1), Some(2), Some(0), Some(1)>> >>,
      << <<1, 2>>, <<Some(1), << >>, Some(0)>> >>,
      << <<1>>, << << >>, Some(2)>> >>,
      << <<1>>, <<Some(1)>> >>,
      << <<1>>, <<Some(1), Some(2), Some(0)>> >>,
      << << >>, <<Some(1)>> >>,
      << << >>, << >> >> }

\* faulty variant: the lengths are required to be equal
FromVarAssertEqual(breaks, range_vals) == Len(range_vals) = Len(breaks)

\* assert len(range_vals) == len(breaks) + 1
FromVarAssert(breaks, range_vals) == Len(range_vals) = Len(breaks) + 1

\* vals before the None entries are removed (lines 50-54); range_vals[-1] is
\* the last entry
FromVarPairs(breaks, range_vals) ==
    << <<Lt(breaks[1]), range_vals[1]>> >>
    \o [i \in 1 .. Len(breaks) - 1 |->
           <<Range(breaks[i], breaks[i + 1]), range_vals[i + 1]>>]
    \o << <<Ge(breaks[Len(breaks)]), range_vals[Len(range_vals)]>> >>

\* vals = [v for v in vals if v[1] is not None]
FromVarVals(breaks, range_vals) ==
    LET kept == SelectSeq(FromVarPairs(breaks, range_vals), LAMBDA v : v[2] # << >>)
    IN  [j \in 1 .. Len(kept) |-> <<kept[j][1], kept[j][2][1]>>]

\* the parameters of __init__ after self
InitParams == <<"s", "name", "vals">>

\* the positional arguments of the call Piecewise(s, vals) of line 58
FromVarCall(s, vals) == <<s, vals>>

\* the call binds: every parameter of __init__ gets an argument
Binds(args) == Len(args) = Len(InitParams)

\* the exception from_var ends with, "" when it returns
FromVarError(breaks, range_vals, s) ==
    IF ~FromVarAssert(breaks, range_vals) THEN "AssertionError"
    ELSE IF breaks = << >> THEN "IndexError"
    ELSE IF ~Binds(FromVarCall(s, FromVarVals(breaks, range_vals))) THEN "TypeError"
    ELSE ""

\* Piecewise.from_var(var, breaks, range_vals, s)
FromVar(breaks, range_vals, s) ==
    LET error == FromVarError(breaks, range_vals, s) IN
    /\ Len(insts) < MaxInst
    /\ IF error = ""
       THEN LET args == FromVarCall(s, FromVarVals(breaks, range_vals)) IN
            /\ insts' = Append(insts,
                               NewPiecewise(args[1], args[2], args[3], Piecewise_id))
            /\ Piecewise_id' = NextId(Piecewise_id)
            /\ syms' = Append(syms, << >>)
            /\ last' = [NoCall EXCEPT !.op = "from_var", !.inst = Len(insts) + 1,
                                      !.ctx = s, !.breaks = breaks,
                                      !.range_vals = range_vals]
       ELSE /\ last' = [NoCall EXCEPT !.op = "from_var", !.ctx = s, !.raised = TRUE,
                                      !.error = error, !.breaks = breaks,
                                      !.range_vals = range_vals]
            /\ UNCHANGED <<Piecewise_id, insts, syms, running>>
    /\ UNCHANGED <<solver, running>>

-----------------------------------------------------------------------------
(* The caller's own use of a backend model *)

CallerPush(s) ==
    /\ Len(solver[s]) - 1 < MaxDepth
    /\ solver' = [solver EXCEPT ![s] = SolverPush(@)]
    /\ last' = [NoCall EXCEPT !.op = "push", !.ctx = s]
    /\ UNCHANGED <<Piecewise_id, insts, syms, running>>

CallerPop(s) ==
    /\ Len(solver[s]) > 1
    /\ solver' = [solver EXCEPT ![s] = SolverPop(@)]
    /\ last' = [NoCall EXCEPT !.op = "pop", !.ctx = s]
    /\ UNCHANGED <<Piecewise_id, insts, syms, running>>

CallerAdd(s, c) ==
    /\ UserCon(c) \notin Asserted(solver[s])
    /\ solver' = [solver EXCEPT ![s] = SolverAdd(@, UserCon(c))]
    /\ last' = [NoCall EXCEPT !.op = "add_user", !.ctx = s]
    /\ UNCHANGED <<Piecewise_id, insts, syms, running>>

-----------------------------------------------------------------------------
(* Specifications *)

\* construction and the arithmetic interface
Next ==
    \/ \E s \in Solvers, in \in Inputs : Construct(s, in[1], in[2])
    \/ \E i \in 1 .. MaxInst : Val(i)
    \/ \E i \in 1 .. MaxInst, other \in Operands : Mul(i, other)
    \/ \E i \in 1 .. MaxInst, other \in Operands : Add(i, other)

Spec == Init /\ [][Next]_vars

\* verify, against a context the caller has prepared
NextVerify ==
    \/ \E s \in Solvers, in \in VerifyInputs : Construct(s, in[1], in[2])
    \/ \E i \in 1 .. MaxInst : Val(i)
    \/ \E s \in Solvers, c \in UserCons : CallerAdd(s, c)
    \/ \E i \in 1 .. MaxInst, ctx \in Solvers \cup {None},
          satisfiable \in {"sat", "unsat", "unknown"} : Verify(i, ctx, satisfiable)

SpecVerify == Init /\ [][NextVerify]_vars

\* the arithmetic interface and verify on instances of one list
CountInputs == { <<"a", ListOverlap>> }

NextCount ==
    \/ \E s \in Solvers, in \in CountInputs : Construct(s, in[1], in[2])
    \/ \E i \in 1 .. MaxInst : Val(i)
    \/ \E i \in 1 .. MaxInst, other \in Operands : Mul(i, other)
    \/ \E i \in 1 .. MaxInst, other \in Operands : Add(i, other)
    \/ \E i \in 1 .. MaxInst, ctx \in Solvers \cup {None},
          satisfiable \in {"sat", "unsat", "unknown"} : Verify(i, ctx, satisfiable)

SpecCount == Init /\ [][NextCount]_vars

\* constructions on two threads, val and __add__
NextThreads ==
    \/ \E t \in Threads, s \in Solvers, in \in CountInputs :
          InitBegin(t, s, in[1], in[2])
    \/ \E t \in Threads : InitReadId(t)
    \/ \E t \in Threads : InitLoad(t)
    \/ \E t \in Threads : InitStore(t)
    \/ \E t \in Threads : InitEnd(t)
    \/ \E i \in 1 .. MaxInst : Val(i)
    \/ \E i \in 1 .. MaxInst, other \in Operands : Add(i, other)

SpecThreads == Init /\ [][NextThreads]_vars

\* construction from breakpoints
NextFromVar ==
    \/ \E s \in Solvers, in \in Inputs : Construct(s, in[1], in[2])
    \/ \E i \in 1 .. MaxInst : Val(i)
    \/ \E s \in Solvers, in \in FromVarInputs : FromVar(in[1], in[2], s)

SpecFromVar == Init /\ [][NextFromVar]_vars

\* the caller's scopes on the shared backend
NextScopes ==
    \/ \E s \in Solvers, in \in Inputs : Construct(s, in[1], in[2])
    \/ \E i \in 1 .. MaxInst : Val(i)
    \/ \E s \in Solvers : CallerPush(s)
    \/ \E s \in Solvers : CallerPop(s)

SpecScopes == Init /\ [][NextScopes]_vars

-----------------------------------------------------------------------------
(* Properties of verify, checked under SpecVerify *)

\* every assignment that satisfies the context makes exactly one condition true
ExactlyOneUnder(frames, vals) ==
    \A x \in Dom, e \in EDom :
        Models(Asserted(frames), x, e) => NumTrue(Conds(vals), x) = 1

\* C1: when the list is mutually exclusive and exhaustive under the proof
\* context, so that the check of "count != 1" is unsatisfiable, verify raises
\* no failure.
C1_VerifyAcceptsExactList ==
    ( /\ last.op = "verify"
      /\ ExactlyOneUnder(ProofContext(last.ctx), insts[last.inst].vals)
      /\ last.satisfiable = "unsat" )
    => ~last.raised

\* C2: when the check of "count != 1" returns satisfiable or unknown, verify
\* fails.
C2_VerifyRejectsOtherResults ==
    (last.op = "verify" /\ last.satisfiable \in {"sat", "unknown"}) => last.raised

-----------------------------------------------------------------------------
(* Properties of the arithmetic interface, checked under Spec *)

\* number of pairs of the list equal to its j-th pair
Multiplicity(vals, j) == Cardinality({k \in 1 .. Len(vals) : vals[k] = vals[j]})

\* this step adds to the backend of instance i one constraint
\* "condition implies sym == value <op> other" per pair of its list, and
\* changes nothing else in any backend
RegistersPairs(i, sym, op, other) ==
    LET p == insts[i]
        s == p.s
        con(j) == Implication(p.vals[j][1], sym, p.vals[j][2], op, other)
    IN  /\ Len(solver'[s]) = Len(solver[s])
        /\ NumConstraints(solver'[s]) = NumConstraints(solver[s]) + Len(p.vals)
        /\ \A j \in 1 .. Len(p.vals) :
              CountOf(solver'[s], con(j))
                  = CountOf(solver[s], con(j)) + Multiplicity(p.vals, j)
        /\ \A c \in Asserted(solver[s]) : CountOf(solver'[s], c) >= CountOf(solver[s], c)
        /\ \A o \in Solvers \ {s} : solver'[o] = solver[o]

\* the names of the symbols instance i has made
NamesOf(i) == {syms[i][j].name : j \in 1 .. Len(syms[i])}

\* C3: once val() has been called on an instance, every call of val() returns
\* the handle of the first call, and a second or later call registers no
\* constraint.
C3_ValIdempotent ==
    [][\A i \in 1 .. Len(insts) :
          /\ insts[i].val_def # None => insts'[i].val_def = insts[i].val_def
          /\ (last'.op = "val" /\ last'.inst = i)
                => (last'.ret # None /\ last'.ret = insts'[i].val_def)
          /\ (last'.op = "val" /\ last'.inst = i /\ insts[i].val_def # None)
                => /\ last'.ret = insts[i].val_def
                   /\ solver' = solver
                   /\ NumConstraints(solver'[insts[i].s])
                          = NumConstraints(solver[insts[i].s])
                   /\ syms' = syms
                   /\ insts' = insts]_vars

C3_SecondCall ==
    /\ last.op = "val"
    /\ last.cached
    /\ Len(insts[last.inst].vals) > 0
    /\ last.ret = insts[last.inst].val_def

\* C4: the first call of val() on an instance with n pairs makes one symbol
\* named after the instance id alone, registers exactly the n constraints
\* "condition implies handle == value", and stores the handle in val_def.
C4_FirstVal ==
    [][\A i \in 1 .. Len(insts) :
          (last'.op = "val" /\ last'.inst = i /\ insts[i].val_def = None)
          => /\ last'.ret = "auxPiecewiseVal_" \o Str(insts[i].id)
             /\ insts' = [insts EXCEPT ![i].val_def = last'.ret]
             /\ syms' = [syms EXCEPT ![i] = Append(@, Real("val", last'.ret))]
             /\ RegistersPairs(i, last'.ret, "eq", Lit(0))]_vars

C4_FirstCallDone ==
    /\ last.op = "val"
    /\ ~last.cached
    /\ Len(insts[last.inst].vals) = 3
    /\ NumConstraints(solver[insts[last.inst].s]) = 3

\* C5: a multiplication by a symbolic operand makes a symbol the instance has
\* not made before (so two multiplications give two names), advances aux_id
\* by one and registers exactly one "condition implies aux == value * e" per
\* pair.
C5_MulSymbolic ==
    [][\A i \in 1 .. Len(insts) :
          (last'.op = "mul" /\ last'.inst = i /\ ~last'.other.lit)
          => /\ insts' = [insts EXCEPT ![i].aux_id = insts[i].aux_id + 1]
             /\ last'.ret \notin NamesOf(i)
             /\ syms' = [syms EXCEPT ![i] = Append(@, Real("mul", last'.ret))]
             /\ RegistersPairs(i, last'.ret, "mul", last'.other)]_vars

C5_TwoMuls ==
    /\ last.op = "mul"
    /\ ~last.other.lit
    /\ Len(insts[last.inst].vals) > 0
    /\ \E j, k \in 1 .. Len(syms[last.inst]) :
          /\ j < k
          /\ syms[last.inst][j].kind = "mul"
          /\ syms[last.inst][k].kind = "mul"

\* C6: an addition, by a literal or by a symbolic operand, makes a new
\* symbol, advances aux_id by one, registers exactly one "condition implies
\* aux == value + operand" per pair, and leaves val_def as it was.
C6_AddAlwaysAux ==
    [][\A i \in 1 .. Len(insts) :
          (last'.op = "add" /\ last'.inst = i)
          => /\ insts' = [insts EXCEPT ![i].aux_id = insts[i].aux_id + 1]
             /\ insts'[i].val_def = insts[i].val_def
             /\ last'.ret \notin NamesOf(i)
             /\ last'.ret # insts[i].val_def
             /\ syms' = [syms EXCEPT ![i] = Append(@, Real("add", last'.ret))]
             /\ RegistersPairs(i, last'.ret, "add", last'.other)]_vars

C6_LiteralAddsUnmaterialized ==
    /\ last.op = "add"
    /\ last.other.lit
    /\ insts[last.inst].val_def = None
    /\ insts[last.inst].aux_id = 2
    /\ Len(insts[last.inst].vals) > 0

\* the symbols of instance i that an arithmetic operator made
AuxOf(made) == {j \in 1 .. Len(made) : made[j].kind \in {"mul", "add"}}

\* C7: a multiplication by a literal k returns k times the materialized
\* value handle, the handle val() returns before and after that call; it
\* makes no auxiliary symbol and leaves aux_id as it was.
C7_MulLiteralUsesVal ==
    [][\A i \in 1 .. Len(insts) :
          (last'.op = "mul" /\ last'.inst = i /\ last'.other.lit)
          => /\ last'.ret # None
             /\ last'.ret = insts'[i].val_def
             /\ last'.ret = ValInst(insts'[i]).val_def
             /\ insts[i].val_def # None => last'.ret = insts[i].val_def
             /\ insts'[i].aux_id = insts[i].aux_id
             /\ AuxOf(syms'[i]) = AuxOf(syms[i])
             /\ \A j \in AuxOf(syms[i]) : syms'[i][j] = syms[i][j]]_vars

C7_LiteralAfterVal ==
    /\ last.op = "mul"
    /\ last.other.lit
    /\ last.other.k = 2
    /\ last.cached
    /\ last.ret = insts[last.inst].val_def
    /\ insts[last.inst].aux_id > 0

\* C8, as claimed: a multiplication by a literal changes neither the
\* instance (aux_id, val_def) nor the constraints of the backend, whether
\* val() was called before or not.
C8_MulLiteralNoChange ==
    [][(last'.op = "mul" /\ last'.other.lit)
          => (insts' = insts /\ solver' = solver)]_vars

\* C8, amended: a multiplication by a literal never changes aux_id; when the
\* value is already materialized it changes nothing, and otherwise it does
\* what the first val() does: it stores the handle in val_def and registers
\* the n constraints "condition implies handle == value".
C8_MulLiteralMaterializes ==
    [][\A i \in 1 .. Len(insts) :
          (last'.op = "mul" /\ last'.inst = i /\ last'.other.lit)
          => /\ insts'[i].aux_id = insts[i].aux_id
             /\ Piecewise_id' = Piecewise_id
             /\ insts[i].val_def # None
                   => (insts' = insts /\ solver' = solver /\ syms' = syms)
             /\ insts[i].val_def = None
                   => /\ insts' = [insts EXCEPT ![i].val_def = ValName(insts[i].id)]
                      /\ syms' = [syms EXCEPT
                                    ![i] = Append(@, Real("val", ValName(insts[i].id)))]
                      /\ RegistersPairs(i, ValName(insts[i].id), "eq", Lit(0))]_vars

C8_LiteralBeforeVal ==
    /\ last.op = "mul"
    /\ last.other.lit
    /\ ~last.cached
    /\ insts[last.inst].val_def # None
    /\ NumConstraints(solver[insts[last.inst].s]) > 0

\* C9: a symbol made by one instance never has the name of a symbol made by
\* another instance, whatever names the caller gave the instances.
C9_NoCollisionAcrossInstances ==
    \A i, j \in 1 .. Len(insts) : i # j => NamesOf(i) \cap NamesOf(j) = {}

C9_SameNameBothMultiplied ==
    \E i, j \in 1 .. Len(insts) :
        /\ i < j
        /\ insts[i].name = insts[j].name
        /\ \E a \in 1 .. Len(syms[i]), b \in 1 .. Len(syms[j]) :
              /\ syms[i][a].kind = "mul" /\ syms[j][b].kind = "mul"
              /\ syms[i][a].name = MulName(insts[i].name, insts[i].id, 0)
              /\ syms[j][b].name = MulName(insts[j].name, insts[j].id, 0)

\* C10: a construction gives the instance the id Piecewise.id, advances
\* Piecewise.id by one, sets aux_id to 0, leaves val_def unset, stores the
\* model, the name and the list as given and registers no constraint; the
\* ids of the instances are different, increase in construction order, and
\* Piecewise.id is the number of instances.
C10_Construction ==
    [][/\ \A i \in 1 .. Len(insts) : insts'[i].id = insts[i].id
       /\ last'.op = "init"
             => LET n == Len(insts') IN
                /\ n = Len(insts) + 1
                /\ last'.inst = n
                /\ insts' = Append(insts,
                                   [s |-> last'.ctx, name |-> last'.name,
                                    vals |-> last'.vals, id |-> Piecewise_id,
                                    aux_id |-> 0, val_def |-> None])
                /\ Piecewise_id' = Piecewise_id + 1
                /\ Piecewise_id' = n
                /\ \A i \in 1 .. n - 1 : insts'[i].id < insts'[n].id
                /\ solver' = solver
       /\ last'.op # "init" => (Piecewise_id' = Piecewise_id /\ Len(insts') = Len(insts))]_vars

C10_TwoConstructed ==
    /\ last.op = "init"
    /\ last.inst = 2
    /\ Piecewise_id = 2
    /\ insts[1].id = 0 /\ insts[2].id = 1
    /\ insts[1].name = insts[2].name
    /\ NumConstraints(solver[insts[1].s]) > 0

-----------------------------------------------------------------------------
(* Properties of from_var, checked under SpecFromVar *)

\* the list the breakpoint construction is to build: (var < b1, v0),
\* (b_i <= var < b_{i+1}, v_i) for i = 1 .. k-1, (var >= bk, vk), without the
\* pairs whose value is None
RECURSIVE ExpectedList(_, _, _)
ExpectedList(breaks, range_vals, j) ==
    IF j > Len(range_vals) THEN << >>
    ELSE LET k == Len(breaks)
             c == IF j = 1 THEN Lt(breaks[1])
                  ELSE IF j = k + 1 THEN Ge(breaks[k])
                  ELSE Range(breaks[j - 1], breaks[j])
             rest == ExpectedList(breaks, range_vals, j + 1)
         IN  IF range_vals[j] = << >> THEN rest
             ELSE << <<c, range_vals[j][1]>> >> \o rest

\* C11: from_var with k >= 1 breakpoints and k + 1 values returns a Piecewise
\* whose list pairs each interval test with its value, in order, the pairs
\* with a None value left out.
C11_FromVarBuildsList ==
    ( /\ last.op = "from_var"
      /\ Len(last.breaks) >= 1
      /\ Len(last.range_vals) = Len(last.breaks) + 1 )
    => /\ ~last.raised
       /\ last.inst = Len(insts)
       /\ insts[last.inst].vals = ExpectedList(last.breaks, last.range_vals, 1)

\* C12: from_var with a range_vals whose length is not len(breaks) + 1 fails
\* on its assert and constructs nothing: no instance, Piecewise.id and the
\* backends unchanged.
C12_FromVarShapeMismatch ==
    [][(last'.op = "from_var" /\ Len(last'.range_vals) # Len(last'.breaks) + 1)
          => /\ last'.raised
             /\ last'.error = "AssertionError"
             /\ insts' = insts
             /\ Piecewise_id' = Piecewise_id
             /\ syms' = syms
             /\ solver' = solver]_vars

C12_MismatchRaised ==
    /\ last.op = "from_var"
    /\ last.raised
    /\ last.breaks = <<1>>
    /\ Len(last.range_vals) = 1
    /\ Len(insts) = 1
    /\ NumConstraints(solver[insts[1].s]) > 0

-----------------------------------------------------------------------------
(* Properties of verify, checked under SpecVerify *)

\* C13: whatever the check returns and whether verify then raises or not, the
\* proof context has after the call the frames, scope by scope, it had before;
\* no other backend changes either.
C13_VerifyBalanced ==
    [][last'.op = "verify" => solver' = solver]_vars

C13_FailedOnSharedContext ==
    /\ last.op = "verify"
    /\ last.ctx \in Solvers
    /\ last.raised
    /\ NumConstraints(solver[last.ctx]) > 0

\* C14: a verify that raises reports the result check() returned and the
\* whole list of the instance.
C14_FailureCarriesResultAndList ==
    (last.op = "verify" /\ last.raised)
    => /\ last.msg.satisfiable = last.satisfiable
       /\ last.msg.satisfiable \in {"sat", "unsat", "unknown"}
       /\ last.msg.vals = insts[last.inst].vals

C14_FailedOnThreePairs ==
    /\ last.op = "verify"
    /\ last.raised
    /\ Len(insts[last.inst].vals) = 3

\* C18: verify leaves every instance (val_def, aux_id, vals), Piecewise.id and
\* the symbols unchanged; called without a context it leaves every backend
\* unchanged and its result is a result of the query on a new empty context.
C18_VerifyFrame ==
    [][last'.op = "verify"
          => /\ insts' = insts
             /\ Piecewise_id' = Piecewise_id
             /\ syms' = syms
             /\ last'.ctx = None
                   => /\ solver' = solver
                      /\ last'.satisfiable \in
                            CheckResults(VerifyQuery(insts[last'.inst], NewSolver))]_vars

C18_NoContextOnUsedBackend ==
    /\ last.op = "verify"
    /\ last.ctx = None
    /\ insts[last.inst].val_def # None
    /\ insts[last.inst].vals = ListGap
    /\ NumConstraints(solver[insts[last.inst].s]) > Len(insts[last.inst].vals)

-----------------------------------------------------------------------------
(* Properties with the caller's scopes, checked under SpecScopes *)

\* C15: an instance whose val_def is set has, for every pair of its list, the
\* constraint "condition implies val_def == value" in some scope of its
\* backend, also after the caller's push() and pop().
C15_CachedValueConstrained ==
    \A i \in 1 .. Len(insts) :
       insts[i].val_def # None
       => \A j \in 1 .. Len(insts[i].vals) :
             CountOf(solver[insts[i].s],
                     PairConstraints(insts[i].vals, insts[i].val_def, "eq", Lit(0))[j]) >= 1

-----------------------------------------------------------------------------
(* Properties of the auxiliary counter, checked under Spec *)

\* the auxiliary symbols of an instance, in the order they were made
AuxSyms(i) == SelectSeq(syms[i], LAMBDA r : r.kind \in {"mul", "add"})

\* C16: the k-th auxiliary symbol an instance makes, by __mul__ with a
\* symbolic operand or by __add__ alike, carries the counter value k - 1 in its
\* name; the names of its auxiliary symbols differ pairwise and none is the
\* name of its val() symbol.
C16_AuxSymbolsDistinct ==
    \A i \in 1 .. Len(insts) :
       LET p == insts[i]
           aux == AuxSyms(i)
       IN  /\ \A k \in 1 .. Len(aux) :
                 /\ aux[k].name = IF aux[k].kind = "mul"
                                  THEN MulName(p.name, p.id, k - 1)
                                  ELSE AddName(p.id, k - 1)
                 /\ aux[k].name # ValName(p.id)
           /\ \A k, l \in 1 .. Len(aux) : k # l => aux[k].name # aux[l].name

C16_MulAddAndVal ==
    \E i \in 1 .. Len(insts) :
       /\ insts[i].val_def # None
       /\ Len(AuxSyms(i)) = 2
       /\ AuxSyms(i)[1].kind = "add"
       /\ AuxSyms(i)[2].kind = "mul"

-----------------------------------------------------------------------------
(* Properties of the auxiliary counter, checked under SpecCount *)

\* number of constraints in one scope, with multiplicity, on a symbol of `names`
RegisteredInFrame(frame, names) ==
    BagCardinality([c \in {x \in BagToSet(frame) : x.kind = "implies" /\ x.sym \in names}
                      |-> CopiesIn(c, frame)])

\* number of constraints in the backend, with multiplicity, on a symbol of `names`
RECURSIVE RegisteredIn(_, _)
RegisteredIn(frames, names) ==
    IF frames = << >> THEN 0
    ELSE RegisteredInFrame(Head(frames), names)
         + RegisteredIn(Tail(frames), names)

\* the call just made is p * e with e symbolic, or p + other, on instance i
AuxCall(call, i) ==
    /\ call.inst = i
    /\ call.op = "add" \/ (call.op = "mul" /\ ~call.other.lit)

\* C17: aux_id is 0 on construction, goes up by one with every symbolic
\* multiplication and every addition on the instance, and is left unchanged by
\* every other call (val, multiplication by a literal, verify, any call on
\* another instance); so it counts those calls and never decreases. With no
\* push or pop, the backend holds (aux_id + 1 if val_def is set, else aux_id)
\* times len(vals) constraints on the symbols of the instance.
C17_AuxCounter ==
    [][\A i \in 1 .. Len(insts') :
          /\ i > Len(insts) => insts'[i].aux_id = 0
          /\ i <= Len(insts)
                => /\ insts'[i].aux_id >= insts[i].aux_id
                   /\ insts'[i].aux_id
                         = insts[i].aux_id + (IF AuxCall(last', i) THEN 1 ELSE 0)
          /\ RegisteredIn(solver'[insts'[i].s],
                          {syms'[i][j].name : j \in 1 .. Len(syms'[i])})
                = (insts'[i].aux_id + (IF insts'[i].val_def # None THEN 1 ELSE 0))
                  * Len(insts'[i].vals)]_vars

C17_CountedAndVerified ==
    /\ last.op = "verify"
    /\ Len(insts) = 2
    /\ insts[last.inst].aux_id = 2
    /\ insts[last.inst].val_def # None
    /\ RegisteredIn(solver[insts[last.inst].s], NamesOf(last.inst)) = 6

-----------------------------------------------------------------------------
(* Properties of interleaved constructions, checked under SpecThreads *)

\* the symbols of kind `kind` instance i has made, in the order it made them
SymsOfKind(i, kind) == SelectSeq(syms[i], LAMBDA r : r.kind = kind)

\* C19: as long as no call of __init__ has started while another was in
\* progress, the instances have pairwise different ids and Piecewise.id has
\* advanced once per construction that has stored it; and whenever two
\* instances have the same id, their val() symbols have the same name and so
\* have their k-th __add__ symbols.  (That two interleaved constructions can
\* end with the same id and a counter advanced by one is the state
\* C19_SameIdSameNames.)
C19_IdAllocation ==
    /\ ~running.interleaved
          => /\ \A i, j \in 1 .. Len(insts) : i # j => insts[i].id # insts[j].id
             /\ Piecewise_id
                   = Len(insts) + Cardinality({t \in Threads :
                                                  running.frames[t].pc = "rest"})
    /\ \A i, j \in 1 .. Len(insts) :
          (i # j /\ insts[i].id = insts[j].id)
          => /\ \A k \in 1 .. Len(SymsOfKind(i, "val")), l \in 1 .. Len(SymsOfKind(j, "val")) :
                   SymsOfKind(i, "val")[k].name = SymsOfKind(j, "val")[l].name
             /\ \A k \in 1 .. Len(SymsOfKind(i, "add")) :
                   k <= Len(SymsOfKind(j, "add"))
                   => SymsOfKind(i, "add")[k].name = SymsOfKind(j, "add")[k].name

C19_SameIdSameNames ==
    /\ running.interleaved
    /\ Len(insts) = 2
    /\ Piecewise_id = 1
    /\ insts[1].id = insts[2].id
    /\ insts[1].val_def # None
    /\ insts[1].val_def = ValName(insts[2].id)
    /\ Len(SymsOfKind(1, "add")) = 1
    /\ Len(SymsOfKind(2, "add")) = 1
    /\ SymsOfKind(1, "add")[1].name = SymsOfKind(2, "add")[1].name
    /\ insts[1].aux_id = 1
    /\ insts[2].aux_id = 1

====
